---- MODULE Spec2Model ----
(***************************************************************************)
(* Model of src/excel_to_powerpoint_gen.py: the ExcelToPPT converter.      *)
(*                                                                         *)
(* Python str values are sequences of one-character strings, cell values   *)
(* are tagged records, lengths are whole EMU as python-pptx stores them,   *)
(* and Python floats are IEEE-754 doubles computed bit-exactly (section    *)
(* "binary64" below).                                                      *)
(***************************************************************************)
EXTENDS Integers, Sequences, FiniteSets, TLC

VARIABLES excel_file, pptx_file, pc, error, settings, slides, i

vars == <<excel_file, pptx_file, pc, error, settings, slides, i>>

(***************************************************************************)
(* Bounds of the model                                                     *)
(***************************************************************************)
MaxSheets == 3
MaxSlides == 4
MaxTextSize == 21
MaxColorLen == 7
MaxRows == 16
MaxCells == 4

\* integer maximum / minimum, used by the properties
Max(a, b) == IF a >= b THEN a ELSE b
Min(a, b) == IF a <= b THEN a ELSE b

(***************************************************************************)
(* Python str, as a sequence of characters                                 *)
(***************************************************************************)
Digits == <<"0", "1", "2", "3", "4", "5", "6", "7", "8", "9">>

Whitespace == {" ", "\t", "\n", "\r"}

RECURSIVE NatToStr(_)
NatToStr(n) ==
    IF n < 10 THEN <<Digits[n + 1]>>
    ELSE NatToStr(n \div 10) \o <<Digits[(n % 10) + 1]>>

\* str(n) / f"{n}" for an int
IntToStr(n) == IF n < 0 THEN <<"-">> \o NatToStr(-n) ELSE NatToStr(n)

RECURSIVE LStrip(_)
LStrip(s) ==
    IF s # <<>> /\ Head(s) \in Whitespace THEN LStrip(Tail(s)) ELSE s

RECURSIVE RStrip(_)
RStrip(s) ==
    IF s # <<>> /\ s[Len(s)] \in Whitespace
    THEN RStrip(SubSeq(s, 1, Len(s) - 1)) ELSE s

\* str.strip()
Strip(s) == RStrip(LStrip(s))

DigitVal(c) == CHOOSE d \in 0..9 : Digits[d + 1] = c

IsDigit(c) == \E d \in 0..9 : Digits[d + 1] = c

RECURSIVE DigitsToNat(_)
DigitsToNat(s) ==
    IF s = <<>> THEN 0
    ELSE 10 * DigitsToNat(SubSeq(s, 1, Len(s) - 1)) + DigitVal(s[Len(s)])

(***************************************************************************)
(* binary64: Python float arithmetic, computed exactly.  A natural number  *)
(* of any size is a little-endian sequence of limbs in base 2^15 without   *)
(* leading zero limbs; a non-negative double is m * 2^e with m < 2^53+1.   *)
(***************************************************************************)
Limb == 32768

RECURSIVE Pow2(_)
Pow2(k) == IF k = 0 THEN 1 ELSE 2 * Pow2(k - 1)

RECURSIVE BNorm(_)
BNorm(n) ==
    IF n # <<>> /\ n[Len(n)] = 0 THEN BNorm(SubSeq(n, 1, Len(n) - 1)) ELSE n

RECURSIVE BFromInt(_)
BFromInt(k) == IF k = 0 THEN <<>> ELSE <<k % Limb>> \o BFromInt(k \div Limb)

RECURSIVE BToInt(_)
BToInt(n) == IF n = <<>> THEN 0 ELSE n[1] + Limb * BToInt(Tail(n))

RECURSIVE BAddC(_, _, _)
BAddC(a, b, c) ==
    IF a = <<>> /\ b = <<>> THEN (IF c = 0 THEN <<>> ELSE <<c>>)
    ELSE LET x == IF a = <<>> THEN 0 ELSE a[1]
             y == IF b = <<>> THEN 0 ELSE b[1]
             t == x + y + c
         IN  <<t % Limb>> \o BAddC(IF a = <<>> THEN a ELSE Tail(a),
                                   IF b = <<>> THEN b ELSE Tail(b), t \div Limb)

BAdd(a, b) == BAddC(a, b, 0)

\* a - b - c for a >= b + c
RECURSIVE BSubC(_, _, _)
BSubC(a, b, c) ==
    IF a = <<>> THEN <<>>
    ELSE LET y == IF b = <<>> THEN 0 ELSE b[1]
             t == a[1] - y - c
         IN  <<t % Limb>> \o BSubC(Tail(a), IF b = <<>> THEN b ELSE Tail(b),
                                   IF t < 0 THEN 1 ELSE 0)

BSub(a, b) == BNorm(BSubC(a, b, 0))

\* -1, 0, 1 as a < b, a = b, a > b
RECURSIVE BCmp(_, _)
BCmp(a, b) ==
    IF Len(a) # Len(b) THEN (IF Len(a) < Len(b) THEN -1 ELSE 1)
    ELSE IF a = <<>> THEN 0
    ELSE IF a[Len(a)] # b[Len(b)] THEN (IF a[Len(a)] < b[Len(b)] THEN -1 ELSE 1)
    ELSE BCmp(BNorm(SubSeq(a, 1, Len(a) - 1)), BNorm(SubSeq(b, 1, Len(b) - 1)))

\* a * k + c for 0 <= k, c < 2^15
RECURSIVE BMulSmallC(_, _, _)
BMulSmallC(a, k, c) ==
    IF a = <<>> THEN (IF c = 0 THEN <<>> ELSE <<c>>)
    ELSE LET t == a[1] * k + c
         IN  <<t % Limb>> \o BMulSmallC(Tail(a), k, t \div Limb)

BMulSmall(a, k) == BNorm(BMulSmallC(a, k, 0))

RECURSIVE BMul(_, _)
BMul(a, b) ==
    IF a = <<>> \/ b = <<>> THEN <<>>
    ELSE BAdd(BMulSmall(a, b[1]), BNorm(<<0>> \o BMul(a, Tail(b))))

\* quotient and remainder of a by 0 < d < 2^15, from the top limb down
RECURSIVE BDivSmall(_, _)
BDivSmall(a, d) ==
    IF a = <<>> THEN [q |-> <<>>, r |-> 0]
    ELSE LET hi == BDivSmall(Tail(a), d)
             t == hi.r * Limb + a[1]
         IN  [q |-> BNorm(<<t \div d>> \o hi.q), r |-> t % d]

RECURSIVE BitLenInt(_)
BitLenInt(k) == IF k = 0 THEN 0 ELSE 1 + BitLenInt(k \div 2)

BBitLen(n) == IF n = <<>> THEN 0 ELSE 15 * (Len(n) - 1) + BitLenInt(n[Len(n)])

RECURSIVE BShl(_, _)
BShl(n, k) ==
    IF n = <<>> \/ k = 0 THEN n
    ELSE IF k >= 15 THEN <<0>> \o BShl(n, k - 15)
    ELSE BMulSmall(n, Pow2(k))

RECURSIVE BShr(_, _)
BShr(n, k) ==
    IF n = <<>> \/ k = 0 THEN n
    ELSE IF k >= 15 THEN BShr(Tail(n), k - 15)
    ELSE BDivSmall(n, Pow2(k)).q

\* n mod 2^k
BLow(n, k) == BSub(n, BShl(BShr(n, k), k))

BOdd(n) == n # <<>> /\ n[1] % 2 = 1

\* round m * 2^e to 53 significant bits, ties to even
Round53(m, e) ==
    LET len == BBitLen(m) IN
    IF len <= 53 THEN [m |-> m, e |-> e]
    ELSE LET s == len - 53
             q == BShr(m, s)
             c == BCmp(BLow(m, s), BShl(<<1>>, s - 1))
             up == c = 1 \/ (c = 0 /\ BOdd(q))
         IN  [m |-> IF up THEN BAdd(q, <<1>>) ELSE q, e |-> e + s]

\* float(k) for an int 0 <= k < 2^31
FFromInt(k) == [m |-> BFromInt(k), e |-> 0]

\* the float literal num/den (den a power of ten below 2^15), correctly rounded
FLit(num, den) ==
    LET k0 == 53 + BitLenInt(den) - BitLenInt(num)
        d0 == BDivSmall(BShl(BFromInt(num), k0), den)
        k == IF BBitLen(d0.q) > 53 THEN k0 - 1 ELSE k0
        d == BDivSmall(BShl(BFromInt(num), k), den)
        up == 2 * d.r > den \/ (2 * d.r = den /\ BOdd(d.q))
    IN  [m |-> IF up THEN BAdd(d.q, <<1>>) ELSE d.q, e |-> -k]

\* x * y
FMul(x, y) == Round53(BMul(x.m, y.m), x.e + y.e)

\* x - y for x >= y
FSub(x, y) ==
    LET e == IF x.e <= y.e THEN x.e ELSE y.e
    IN  Round53(BSub(BShl(x.m, x.e - e), BShl(y.m, y.e - e)), e)

\* x < y
FLess(x, y) ==
    LET e == IF x.e <= y.e THEN x.e ELSE y.e
    IN  BCmp(BShl(x.m, x.e - e), BShl(y.m, y.e - e)) = -1

\* min(x, y): the first argument unless the second is smaller
FMin(x, y) == IF FLess(y, x) THEN y ELSE x

\* int(x): truncation
FTrunc(x) == IF x.e >= 0 THEN BToInt(BShl(x.m, x.e)) ELSE BToInt(BShr(x.m, -x.e))

(***************************************************************************)
(* pptx.util lengths, in EMU                                               *)
(***************************************************************************)
EmusPerInch == 914400
EmusPerPt == 12700

\* Inches(x) for a float x: int(x * 914400)
Inches(x) == FTrunc(FMul(x, FFromInt(EmusPerInch)))

\* Pt(n) for an int n: int(n * 12700)
Pt(n) == n * EmusPerPt

(***************************************************************************)
(* Cell values of the workbook: None, an int or a str                      *)
(***************************************************************************)
None == [t |-> "none", i |-> 0, s |-> <<>>]
IntV(n) == [t |-> "int", i |-> n, s |-> <<>>]
StrV(s) == [t |-> "str", i |-> 0, s |-> s]

\* str(value)
Str(v) ==
    CASE v.t = "int" -> IntToStr(v.i)
      [] v.t = "str" -> v.s
      [] OTHER -> <<"N", "o", "n", "e">>

\* truth value of a cell value ("if value", "value or 1")
Truthy(v) ==
    CASE v.t = "int" -> v.i # 0
      [] v.t = "str" -> v.s # <<>>
      [] OTHER -> FALSE

\* int(value): the result, or the exception it raises
IntOfStr(s) ==
    LET b == Strip(s)
        signed == b # <<>> /\ Head(b) \in {"+", "-"}
        d == IF signed THEN Tail(b) ELSE b
    IN  IF d # <<>> /\ \A k \in 1..Len(d) : IsDigit(d[k])
        THEN [ok |-> TRUE, error |-> "none",
              v |-> IF signed /\ Head(b) = "-" THEN -DigitsToNat(d) ELSE DigitsToNat(d)]
        ELSE [ok |-> FALSE, error |-> "ValueError: invalid literal for int()", v |-> 0]

PyInt(v) ==
    CASE v.t = "int" -> [ok |-> TRUE, error |-> "none", v |-> v.i]
      [] v.t = "str" -> IntOfStr(v.s)
      [] OTHER -> [ok |-> FALSE, error |-> "TypeError: int() argument", v |-> 0]

(***************************************************************************)
(* Colour parsing                                                          *)
(***************************************************************************)
HexLower == <<"0", "1", "2", "3", "4", "5", "6", "7", "8", "9",
              "a", "b", "c", "d", "e", "f">>

HexUpper == <<"0", "1", "2", "3", "4", "5", "6", "7", "8", "9",
              "A", "B", "C", "D", "E", "F">>

\* the character class [0-9a-fA-F]
IsHexDigit(c) == \E d \in 1..16 : HexLower[d] = c \/ HexUpper[d] = c

HexVal(c) == (CHOOSE d \in 1..16 : HexLower[d] = c \/ HexUpper[d] = c) - 1

\* int(two_chars, 16)
Int16(s) == 16 * HexVal(s[1]) + HexVal(s[2])

\* re.fullmatch(r"[0-9a-fA-F]{6}", s)
FullMatchHex6(s) == Len(s) = 6 /\ \A k \in 1..6 : IsHexDigit(s[k])

\* the channels taken in the order blue, green, red
hex_to_rgb_tuple_bgr(hex_str) ==
    <<Int16(SubSeq(hex_str, 5, 6)), Int16(SubSeq(hex_str, 3, 4)),
      Int16(SubSeq(hex_str, 1, 2))>>

hex_to_rgb_tuple(hex_str) ==
    <<Int16(SubSeq(hex_str, 1, 2)), Int16(SubSeq(hex_str, 3, 4)),
      Int16(SubSeq(hex_str, 5, 6))>>

DefaultColor == <<"1", "F", "4", "E", "7", "9">>

\* s.startswith("#") and s[1:]
StripHash(s) == IF s # <<>> /\ Head(s) = "#" THEN Tail(s) ELSE s

\* the same without the whitespace strip of line 77
parse_hex_color_nostrip(value) ==
    IF ~Truthy(value) THEN hex_to_rgb_tuple(DefaultColor)
    ELSE LET s == StripHash(Str(value))
         IN  IF ~FullMatchHex6(s) THEN hex_to_rgb_tuple(DefaultColor)
             ELSE hex_to_rgb_tuple(s)

\* value is None or a str cell value
parse_hex_color(value) ==
    IF ~Truthy(value) THEN hex_to_rgb_tuple(DefaultColor)
    ELSE LET s == StripHash(Strip(Str(value)))
         IN  IF ~FullMatchHex6(s) THEN hex_to_rgb_tuple(DefaultColor)
             ELSE hex_to_rgb_tuple(s)

(***************************************************************************)
(* Settings                                                                *)
(***************************************************************************)
NoSettings == [slide_count |-> 0, title_size_pt |-> 0, title_color |-> <<0, 0, 0>>,
               text_size_pt |-> 0]

PptSettings(sc, ts, col, xs) ==
    [slide_count |-> sc, title_size_pt |-> ts, title_color |-> col, text_size_pt |-> xs]

\* the argument built at line 105: str(title_color) if title_color else None
ColorArg(title_color) == IF Truthy(title_color) THEN StrV(Str(title_color)) ELSE None

\* _read_settings with the test "slide_count < 1"
read_settings_min1(sheet) ==
    LET slide_count == PyInt(sheet.A2)
        title_size == PyInt(sheet.B2)
        text_size == PyInt(sheet.D2)
        Raise(e) == [ok |-> FALSE, error |-> e, settings |-> NoSettings]
    IN  IF ~slide_count.ok THEN Raise(slide_count.error)
        ELSE IF ~title_size.ok THEN Raise(title_size.error)
        ELSE IF ~text_size.ok THEN Raise(text_size.error)
        ELSE IF slide_count.v < 1
             THEN Raise("ValueError: slide_count (A2) must be at least 2")
        ELSE [ok |-> TRUE, error |-> "none",
              settings |-> PptSettings(slide_count.v, title_size.v,
                                       parse_hex_color(ColorArg(sheet.C2)),
                                       text_size.v)]

\* the result of _read_settings: the settings, or the exception raised
read_settings(sheet) ==
    LET slide_count == PyInt(sheet.A2)
        title_size == PyInt(sheet.B2)
        text_size == PyInt(sheet.D2)
        Raise(e) == [ok |-> FALSE, error |-> e, settings |-> NoSettings]
    IN  IF ~slide_count.ok THEN Raise(slide_count.error)
        ELSE IF ~title_size.ok THEN Raise(title_size.error)
        ELSE IF ~text_size.ok THEN Raise(text_size.error)
        ELSE IF slide_count.v < 2
             THEN Raise("ValueError: slide_count (A2) must be at least 2")
        ELSE [ok |-> TRUE, error |-> "none",
              settings |-> PptSettings(slide_count.v, title_size.v,
                                       parse_hex_color(ColorArg(sheet.C2)),
                                       text_size.v)]

\* ExcelToPPT.__init__
Construct ==
    /\ pc = "start"
    /\ IF excel_file.sheets < 2
       THEN /\ pc' = "failed"
            /\ error' = "ValueError: Workbook must contain at least 2 sheets"
            /\ settings' = NoSettings
       ELSE LET r == read_settings(excel_file.settings_sheet)
            IN  /\ pc' = IF r.ok THEN "constructed" ELSE "failed"
                /\ error' = r.error
                /\ settings' = r.settings
    /\ UNCHANGED <<excel_file, pptx_file, slides, i>>

(***************************************************************************)
(* The deck: prs.slides, a sequence of slides                              *)
(***************************************************************************)
Unset == -1

NoBody == [state |-> "absent", text |-> <<>>, size |-> Unset]

NoTable == [rows |-> 0, cols |-> 0, left |-> 0, top |-> 0, width |-> 0, height |-> 0,
            cells |-> <<>>]

NoFootnote == [present |-> FALSE, text |-> <<>>, left |-> 0, top |-> 0, width |-> 0,
               height |-> 0, size |-> Unset]

\* prs.slides.add_slide(prs.slide_layouts[layout]) followed by shapes.title.text = title
NewSlide(layout, title) ==
    [layout |-> layout, title |-> title, title_size |-> Unset, title_color |-> <<0, 0, 0>>,
     body |-> [state |-> IF layout = 1 THEN "untouched" ELSE "absent",
               text |-> <<>>, size |-> Unset],
     table |-> NoTable, footnote |-> NoFootnote]

TitleText == <<"P", "r", "e", "s", "e", "n", "t", "a", "t", "i", "o", "n">>

FinalText == <<"F", "i", "n", "a", "l", " ", "R", "e", "s", "u", "l", "t", "s">>

\* "Content goes here" and the character U+2026, written "..."
BodyText == <<"C", "o", "n", "t", "e", "n", "t", " ", "g", "o", "e", "s", " ", "h", "e", "r", "e", "...">>

FootnoteText == <<"*", " ", "T", "h", "e", " ", "v", "a", "l", "u", "e", "s", " ", "a", "r", "e", " ", "e", "s", "t", "i", "m", "a", "t", "e", "d", ".">>

\* f"Slide {i - 1}" with the index one too high
ContentTitleOffByOne(k) == <<"S", "l", "i", "d", "e", " ">> \o IntToStr(k)

\* f"Slide {i - 1}"
ContentTitle(k) == <<"S", "l", "i", "d", "e", " ">> \o IntToStr(k - 1)

\* range(start, stop) that includes stop
RangeInclusive(start, stop) == start..stop

\* range(start, stop)
Range(start, stop) == start..(stop - 1)

\* The try block of lines 132-136 when its step number fail raises (0: none
\* does): 1 s.placeholders[1], 2 body.clear(), 3 body.text, 4 font.size.
\* The except clause leaves what the earlier steps did.
FillBody(slide, text_size_pt, fail) ==
    [slide EXCEPT !.body =
        CASE fail = 1 -> NoBody
          [] fail = 2 -> [state |-> "untouched", text |-> <<>>, size |-> Unset]
          [] fail = 3 -> [state |-> "cleared", text |-> <<>>, size |-> Unset]
          [] fail = 4 -> [state |-> "text", text |-> BodyText, size |-> Unset]
          [] OTHER -> [state |-> "sized", text |-> BodyText, size |-> Pt(text_size_pt)]]

(***************************************************************************)
(* The data sheet and the table of the final slide                         *)
(***************************************************************************)
\* data_sheet.cell(r, c).value: None for a cell the sheet does not hold
CellValue(sheet, r, c) ==
    IF <<r, c>> \in DOMAIN sheet.cells THEN sheet.cells[<<r, c>>] ELSE None

\* "x or 1" for an int x
OrOne(x) == IF x # 0 THEN x ELSE 1

\* the cell text with the test "if not value" in place of "value is None"
CellTextFalsy(value) == IF ~Truthy(value) THEN <<>> ELSE Str(value)

\* "" if value is None else str(value)
CellText(value) == IF value.t = "none" THEN <<>> ELSE Str(value)

slide_width_in == FFromInt(10)
slide_height_in == FLit(75, 10)
margin_left == FLit(7, 10)
margin_right == FLit(7, 10)
top == FLit(16, 10)
bottom_margin == FLit(10, 10)

table_left == Inches(margin_left)
table_top == Inches(top)
table_width == Inches(FSub(FSub(slide_width_in, margin_left), margin_right))
max_table_height_in == FSub(FSub(slide_height_in, top), bottom_margin)
footnote_gap == Inches(FLit(2, 10))
footnote_height == Inches(FLit(4, 10))

\* the footnote placed over the last 0.2in of the table
FootnoteTopOverlap(table_height) == table_top + table_height - footnote_gap

\* table_top + table_height + Inches(0.2)
FootnoteTop(table_height) == table_top + table_height + footnote_gap

\* the table height without the clamp
TableHeightUnclamped(rows) == Inches(FMul(FLit(35, 100), FFromInt(rows)))

\* Inches(min(0.35 * rows, max_table_height_in))
TableHeight(rows) ==
    Inches(FMin(FMul(FLit(35, 100), FFromInt(rows)), max_table_height_in))

\* the row counts of the data sheets of the model, and their table heights
RowCounts == (1..MaxRows) \cup {50}

table_heights == [rows \in RowCounts |-> TableHeight(rows)]

\* the footnote size without the floor of 8
FootnoteSizeNoFloor(text_size_pt) == Pt(text_size_pt - 2)

\* Pt(max(8, text_size_pt - 2))
FootnoteSize(text_size_pt) ==
    Pt(IF text_size_pt - 2 > 8 THEN text_size_pt - 2 ELSE 8)

add_table_from_sheet(slide, data_sheet, text_size_pt) ==
    LET rows == OrOne(data_sheet.max_row)
        cols == OrOne(data_sheet.max_column)
        table_height == table_heights[rows]
    IN  [slide EXCEPT
            !.table = [rows |-> rows, cols |-> cols, left |-> table_left,
                       top |-> table_top, width |-> table_width,
                       height |-> table_height,
                       cells |-> [rc \in (0..(rows - 1)) \X (0..(cols - 1)) |->
                                    CellText(CellValue(data_sheet, rc[1] + 1, rc[2] + 1))]],
            !.footnote = [present |-> TRUE, text |-> FootnoteText,
                          left |-> table_left,
                          top |-> FootnoteTop(table_height),
                          width |-> table_width, height |-> footnote_height,
                          size |-> FootnoteSize(text_size_pt)]]

(***************************************************************************)
(* create_presentation, one step per slide added                           *)
(***************************************************************************)
\* lines 112-122: prs = Presentation() and the title slide
AddTitleSlide ==
    /\ pc = "constructed"
    /\ slides' = <<[NewSlide(5, TitleText) EXCEPT
                      !.title_size = Pt(settings.title_size_pt),
                      !.title_color = settings.title_color]>>
    /\ i' = 2
    /\ pc' = "loop"
    /\ UNCHANGED <<excel_file, pptx_file, error, settings>>

\* the loop iteration without the except clause: the exception leaves
\* create_presentation
AddContentSlidePropagate ==
    /\ pc = "loop"
    /\ i \in Range(2, settings.slide_count)
    /\ \E fail \in 0..4 :
          /\ slides' = Append(slides, FillBody(NewSlide(1, ContentTitle(i)),
                                               settings.text_size_pt, fail))
          /\ pc' = IF fail = 0 THEN "loop" ELSE "failed"
          /\ error' = IF fail = 0 THEN "none" ELSE "Exception: body placeholder"
    /\ i' = i + 1
    /\ UNCHANGED <<excel_file, pptx_file, settings>>

\* lines 126-138: one iteration of the loop; the exception of the try block
\* is caught and dropped
AddContentSlide ==
    /\ pc = "loop"
    /\ i \in Range(2, settings.slide_count)
    /\ \E fail \in 0..4 :
          slides' = Append(slides, FillBody(NewSlide(1, ContentTitle(i)),
                                            settings.text_size_pt, fail))
    /\ i' = i + 1
    /\ UNCHANGED <<excel_file, pptx_file, pc, error, settings>>

\* lines 141-145: the loop is over; the final slide with the table
AddFinalSlide ==
    /\ pc = "loop"
    /\ i \notin Range(2, settings.slide_count)
    /\ slides' = Append(slides, add_table_from_sheet(NewSlide(1, FinalText),
                                    excel_file.data_sheet, settings.text_size_pt))
    /\ pc' = "final"
    /\ UNCHANGED <<excel_file, pptx_file, error, settings, i>>

\* line 147: prs.save(self.pptx_file)
Save ==
    /\ pc = "final"
    /\ pptx_file' = [exists |-> TRUE, written |-> TRUE, slides |-> slides]
    /\ pc' = "saved"
    /\ UNCHANGED <<excel_file, error, settings, slides, i>>

(***************************************************************************)
(* Inputs                                                                  *)
(***************************************************************************)
NoFile == [exists |-> FALSE, written |-> FALSE, slides |-> <<>>]

StaleFile == [exists |-> TRUE, written |-> FALSE, slides |-> <<>>]

Workbook(n, a2, b2, c2, d2, data) ==
    [sheets |-> n, settings_sheet |-> [A2 |-> a2, B2 |-> b2, C2 |-> c2, D2 |-> d2],
     data_sheet |-> data]

Sheet(r, c, cells) == [max_row |-> r, max_column |-> c, cells |-> cells]

\* a data sheet of 3 rows and 2 columns
Sample3x2 ==
    Sheet(3, 2, (<<1, 1>> :> StrV(<<"k">>)) @@ (<<1, 2>> :> StrV(<<"v">>)) @@
                (<<2, 1>> :> StrV(<<"a">>)) @@ (<<2, 2>> :> IntV(10)) @@
                (<<3, 2>> :> IntV(0)))

Red == StrV(<<"#", "F", "F", "0", "0", "0", "0">>)

StartWith(wb, file) ==
    /\ excel_file = wb
    /\ pptx_file = file
    /\ pc = "start"
    /\ error = "none"
    /\ settings = NoSettings
    /\ slides = <<>>
    /\ i = 0

Init ==
    \E n \in 1..MaxSheets :
    \E a2 \in {None, StrV(<<"x">>), StrV(<<" ", "3", " ">>)} \cup {IntV(k) : k \in 0..MaxSlides} :
    \E b2 \in {None, IntV(32)} :
    \E c2 \in {None, Red} :
    \E d2 \in {None} \cup {IntV(k) : k \in (-2)..MaxTextSize} :
    \E file \in {NoFile, StaleFile} :
        StartWith(Workbook(n, a2, b2, c2, d2, Sample3x2), file)

Next == Construct \/ AddTitleSlide \/ AddContentSlide \/ AddFinalSlide \/ Save

Spec == Init /\ [][Next]_vars

\* Runs on a few workbooks, for the properties of the whole run: the
\* program keeps running until it returns or raises.
InitFair ==
    \E a2 \in {IntV(k) : k \in 1..MaxSlides} :
    \E d2 \in {None, IntV(0), IntV(18)} :
        StartWith(Workbook(2, a2, IntV(32), Red, d2, Sample3x2), StaleFile)

FairSpec == InitFair /\ [][Next]_vars /\ WF_vars(Next)

(***************************************************************************)
(* Inputs for the colour cell: every string over a small alphabet, the     *)
(* strings of the documentation, and cells that are not strings            *)
(***************************************************************************)
ColorAlphabet == {" ", "#", "a", "A", "g"}

StringsUpTo(alphabet, n) == UNION {[1..k -> alphabet] : k \in 0..n}

ColorExamples ==
    {<<"1", "F", "4", "E", "7", "9">>, <<"#", "1", "F", "4", "E", "7", "9">>, <<"1", "f", "4", "e", "7", "9">>, <<"z", "z", "z", "z", "z", "z">>, <<"1", "2", "3", "4", "5">>, <<"#", "F", "F", "0", "0", "0", "0">>, <<" ", "#", "1", "f", "4", "e", "7", "9", " ">>}

ColorCells ==
    {None, IntV(0), IntV(123456)}
        \cup {StrV(s) : s \in StringsUpTo(ColorAlphabet, MaxColorLen) \cup ColorExamples}

InitColor ==
    \E c2 \in ColorCells :
        StartWith(Workbook(2, IntV(2), IntV(32), c2, IntV(18), Sample3x2), NoFile)

NextColor == Construct

SpecColor == InitColor /\ [][NextColor]_vars

(***************************************************************************)
(* Inputs for the data sheet: every content of the sheets of at most       *)
(* MaxCells cells, and taller or wider sheets holding one cell             *)
(***************************************************************************)
CellValues == {None, IntV(0), IntV(-12), StrV(<<>>), StrV(<<"a">>)}

TableSheets ==
    UNION {IF rc[1] * rc[2] <= MaxCells
           THEN {Sheet(rc[1], rc[2], f) : f \in [(1..rc[1]) \X (1..rc[2]) -> CellValues]}
           ELSE {Sheet(rc[1], rc[2], rc :> IntV(7))}
           : rc \in RowCounts \X (1..MaxCells)}

InitTable ==
    \/ \E data \in TableSheets :
          StartWith(Workbook(2, IntV(2), IntV(32), None, IntV(18), data), NoFile)
    \/ StartWith(Workbook(2, IntV(3), IntV(32), None, IntV(18), Sample3x2), NoFile)

SpecTable == InitTable /\ [][Next]_vars

(***************************************************************************)
(* Properties                                                              *)
(***************************************************************************)
A2Cell == excel_file.settings_sheet.A2
B2Cell == excel_file.settings_sheet.B2
C2Cell == excel_file.settings_sheet.C2
D2Cell == excel_file.settings_sheet.D2

Built == pc \in {"final", "saved"}

LastSlide == slides[Len(slides)]

IsTitleSlide(sl) == sl.layout = 5

IsFinalSlide(sl) == sl.layout = 1 /\ sl.table.rows > 0

IsContentSlide(sl) == sl.layout = 1 /\ sl.table.rows = 0

IsPrefix(s, t) == Len(s) <= Len(t) /\ SubSeq(t, 1, Len(s)) = s

\* C1: a completed run on settings with slide_count = N >= 2 saves a deck of
\* exactly N slides: one title slide, N - 2 content slides, one final slide.
C1_SlideCount ==
    pc = "saved" =>
        LET N == PyInt(A2Cell).v
            deck == pptx_file.slides
        IN  /\ N >= 2
            /\ settings.slide_count = N
            /\ pptx_file.written
            /\ deck = slides
            /\ Len(deck) = N
            /\ Cardinality({k \in 1..Len(deck) : IsTitleSlide(deck[k])}) = 1
            /\ Cardinality({k \in 1..Len(deck) : IsContentSlide(deck[k])}) = N - 2
            /\ Cardinality({k \in 1..Len(deck) : IsFinalSlide(deck[k])}) = 1

C1_Witness ==
    /\ pc = "saved"
    /\ settings.slide_count = 4
    /\ Cardinality({k \in 1..Len(pptx_file.slides) : IsContentSlide(pptx_file.slides[k])}) = 2

\* the inputs C2 is about: fewer than 2 sheets, or a slide_count below 2
BadInput ==
    \/ excel_file.sheets < 2
    \/ PyInt(A2Cell).ok /\ PyInt(A2Cell).v < 2

ValidationErrors ==
    {"ValueError: Workbook must contain at least 2 sheets",
     "ValueError: slide_count (A2) must be at least 2"}

Upper(s) ==
    [k \in 1..Len(s) |->
        IF \E d \in 11..16 : HexLower[d] = s[k]
        THEN HexUpper[CHOOSE d \in 11..16 : HexLower[d] = s[k]]
        ELSE s[k]]

\* the digits of a colour cell as C3 reads them: the display string of the
\* value without one leading '#'
ClaimDigits(v) == StripHash(Str(v))

\* the digits after the surrounding whitespace was removed first
StrippedDigits(v) == StripHash(Strip(Str(v)))

ColorAsClaimed(v, digits) ==
    IF v.t # "none" /\ FullMatchHex6(digits)
    THEN hex_to_rgb_tuple(Upper(digits))
    ELSE <<31, 78, 121>>

\* C3 as stated: the title colour is the triple of the digits exactly when
\* the value without one optional leading '#' is 6 hexadecimal digits in
\* either case, the default (31,78,121) otherwise, and no value fails.
C3_Original ==
    pc # "start" =>
        /\ pc = "constructed"
        /\ error = "none"
        /\ settings.title_color = ColorAsClaimed(C2Cell, ClaimDigits(C2Cell))

\* C3, amended: the same with the surrounding whitespace of the value
\* removed before the optional leading '#'.
C3_Amended ==
    pc # "start" =>
        /\ pc = "constructed"
        /\ error = "none"
        /\ settings.title_color = ColorAsClaimed(C2Cell, StrippedDigits(C2Cell))
        /\ C2Cell = Red => settings.title_color = <<255, 0, 0>>
        /\ C2Cell = IntV(123456) => settings.title_color = <<18, 52, 86>>
        /\ Str(C2Cell) \in {<<"A", "A", "A", "A", "A", "A">>, <<"a", "a", "a", "a", "a", "a">>}
              => settings.title_color = <<170, 170, 170>>

C3_Witness ==
    /\ pc = "constructed"
    /\ Str(C2Cell) # Strip(Str(C2Cell))
    /\ FullMatchHex6(StrippedDigits(C2Cell))
    /\ settings.title_color = <<170, 170, 170>>

\* C4: the slide sequence only grows by appending, the file is saved only
\* after the last slide was added, and in the deck of N slides slide 1 is
\* titled "Presentation", slide k (2 <= k <= N - 1) "Slide {k-1}" and the
\* last slide, slide N, "Final Results".
C4_AppendOnly ==
    /\ [][/\ IsPrefix(slides, slides')
          /\ Len(slides') <= Len(slides) + 1
          /\ pptx_file' # pptx_file =>
                /\ pc = "final"
                /\ slides' = slides
                /\ Len(slides) = settings.slide_count
                /\ pptx_file'.slides = slides]_vars
    /\ [](Built =>
            /\ Len(slides) = settings.slide_count
            /\ slides[1].title = <<"P", "r", "e", "s", "e", "n", "t", "a", "t", "i", "o", "n">>
            /\ IsTitleSlide(slides[1])
            /\ \A k \in 2..(Len(slides) - 1) :
                  /\ slides[k].title = <<"S", "l", "i", "d", "e", " ">> \o IntToStr(k - 1)
                  /\ IsContentSlide(slides[k])
            /\ LastSlide.title = <<"F", "i", "n", "a", "l", " ", "R", "e", "s", "u", "l", "t", "s">>
            /\ IsFinalSlide(LastSlide))
    /\ [](slides # <<>> => slides[1].title = <<"P", "r", "e", "s", "e", "n", "t", "a", "t", "i", "o", "n">>)

C4_Witness ==
    /\ pc = "saved"
    /\ Len(slides) = 4
    /\ slides[3].title = <<"S", "l", "i", "d", "e", " ", "2">>
    /\ pptx_file.slides = slides

\* C5: the table has exactly rows x cols cells, rows and cols being the data
\* sheet's maximum row and column (at least 1 each), and the text of every
\* cell, row 1 included, is "" for an absent value and the display string of
\* the value otherwise (0 is rendered "0").
C5_TableCells ==
    Built =>
        LET t == LastSlide.table
            sh == excel_file.data_sheet
        IN  /\ t.rows = Max(sh.max_row, 1)
            /\ t.cols = Max(sh.max_column, 1)
            /\ DOMAIN t.cells = (0..(t.rows - 1)) \X (0..(t.cols - 1))
            /\ Cardinality(DOMAIN t.cells) = t.rows * t.cols
            /\ \A r \in 1..t.rows, c \in 1..t.cols :
                  LET v == IF <<r, c>> \in DOMAIN sh.cells THEN sh.cells[<<r, c>>] ELSE None
                      text == t.cells[<<r - 1, c - 1>>]
                  IN  /\ v.t = "none" => text = <<>>
                      /\ v.t = "str" => text = v.s
                      /\ v.t = "int" => text = IntToStr(v.i) /\ text # <<>>
                      /\ v = IntV(0) => text = <<"0">>
                      /\ v = IntV(-12) => text = <<"-", "1", "2">>

C5_Witness ==
    /\ pc = "saved"
    /\ LastSlide.table.rows = 2 /\ LastSlide.table.cols = 2
    /\ excel_file.data_sheet.cells[<<1, 1>>] = IntV(0)
    /\ excel_file.data_sheet.cells[<<2, 2>>] = None
    /\ pptx_file.slides[Len(slides)].table.cells[<<0, 0>>] = <<"0">>
    /\ pptx_file.slides[Len(slides)].table.cells[<<1, 1>>] = <<>>

\* 0.35in and 4.9in in EMU
Emu035 == 320040
Emu490 == 4480560

\* C6 as stated: the table height is min(0.35in * rows, 4.9in).
C6_Original ==
    Built => LastSlide.table.height = Min(Emu035 * LastSlide.table.rows, Emu490)

\* C6, amended: the table height is the whole-EMU truncation of
\* min(0.35 * rows, 4.9) inches computed in binary floating point: for
\* rows <= 14 it is 0.35in * rows or one EMU less (one less exactly at rows
\* 3, 6, 7, 11, 12, 14), for rows >= 15 exactly 4.9in; it never exceeds
\* 4.9in and never decreases as rows grows.
C6_Amended ==
    Built =>
        LET rows == LastSlide.table.rows
            h == LastSlide.table.height
        IN  /\ rows >= 1
            /\ rows <= 14 =>
                  h = Emu035 * rows - (IF rows \in {3, 6, 7, 11, 12, 14} THEN 1 ELSE 0)
            /\ rows >= 15 => h = Emu490
            /\ h <= Emu490
            /\ \A r \in RowCounts : r <= rows => table_heights[r] <= h
            /\ rows = 2 => h = 640080
            /\ rows = 50 => h = Emu490

C6_Witness ==
    /\ pc = "saved"
    /\ LastSlide.table.rows = 14
    /\ LastSlide.table.height = Emu490 - 1

\* C7: the footnote reads "* The values are estimated." and its font size is
\* max(8, text_size_pt - 2) points: never below 8pt, and text_size_pt - 2
\* from text_size_pt = 10 on.
C7_FootnoteSize ==
    Built =>
        LET f == LastSlide.footnote
            ts == PyInt(D2Cell).v
        IN  /\ f.present
            /\ f.text = <<"*", " ", "T", "h", "e", " ", "v", "a", "l", "u", "e", "s", " ", "a", "r", "e", " ", "e", "s", "t", "i", "m", "a", "t", "e", "d", ".">>
            /\ settings.text_size_pt = ts
            /\ f.size = 12700 * Max(8, ts - 2)
            /\ f.size >= 12700 * 8
            /\ ts >= 10 => f.size = 12700 * (ts - 2)
            /\ ts \in {7, 10} => f.size = 12700 * 8
            /\ ts = 20 => f.size = 12700 * 18

C7_Witness ==
    /\ pc = "saved"
    /\ settings.text_size_pt = 7
    /\ LastSlide.footnote.size = 12700 * 8

\* the inputs of the scenario: (4, 32, "#FF0000", 18) and a 3x2 data sheet
Scenario ==
    /\ excel_file.sheets >= 2
    /\ A2Cell = IntV(4) /\ B2Cell = IntV(32) /\ C2Cell = Red /\ D2Cell = IntV(18)
    /\ excel_file.data_sheet.max_row = 3 /\ excel_file.data_sheet.max_column = 2

ScenarioDeck(footnote_pt) ==
    /\ Len(pptx_file.slides) = 4
    /\ pptx_file.slides = slides
    /\ slides[1].title_color = <<255, 0, 0>>
    /\ slides[1].title_size = 12700 * 32
    /\ slides[2].title = <<"S", "l", "i", "d", "e", " ", "1">>
    /\ slides[3].title = <<"S", "l", "i", "d", "e", " ", "2">>
    /\ slides[4].title = <<"F", "i", "n", "a", "l", " ", "R", "e", "s", "u", "l", "t", "s">>
    /\ slides[4].table.rows = 3 /\ slides[4].table.cols = 2
    /\ slides[4].footnote.present
    /\ slides[4].footnote.size = 12700 * footnote_pt

\* C8 as stated: the scenario gives 4 slides, a red 32pt title, "Slide 1",
\* "Slide 2", "Final Results" with a 3x2 table and an 8pt footnote.
C8_Original == Scenario /\ pc = "saved" => ScenarioDeck(8)

\* C8, amended: the same with a 16pt footnote (max(8, 18 - 2)).
C8_Amended == Scenario /\ pc = "saved" => ScenarioDeck(16)

C8_Witness == Scenario /\ pc = "saved" /\ slides[4].footnote.size = 12700 * 16

\* C9: a failure to fill the body of a content slide, at any step and in any
\* subset of the content slides, is swallowed: the slide stays in the deck
\* with its title, the loop goes on, the final slide is added, the deck has
\* slide_count slides, the file is saved and no error reaches the caller.
C9_Swallowed ==
    /\ [][pc = "loop" /\ i < settings.slide_count =>
            /\ Len(slides') = Len(slides) + 1
            /\ slides'[Len(slides')].title = <<"S", "l", "i", "d", "e", " ">> \o IntToStr(i - 1)
            /\ IsContentSlide(slides'[Len(slides')])
            /\ pc' = "loop" /\ i' = i + 1 /\ error' = "none"]_vars
    /\ [](pc \notin {"start", "failed"} => error = "none")
    /\ [](pc = "failed" => slides = <<>> /\ i = 0)
    /\ [](pc = "saved" =>
            /\ Len(slides) = settings.slide_count
            /\ pptx_file.written /\ pptx_file.slides = slides
            /\ \A k \in 2..(Len(slides) - 1) :
                  slides[k].title = <<"S", "l", "i", "d", "e", " ">> \o IntToStr(k - 1)
            /\ IsFinalSlide(LastSlide))
    /\ (pc = "constructed" ~> pc = "saved")

C9_Witness ==
    /\ pc = "saved"
    /\ Len(slides) = 4
    /\ slides[2].body.state = "absent"
    /\ slides[3].body.state = "text"
    /\ pptx_file.written

\* C10: the table's bottom edge is at most 6.5in, the footnote box starts
\* exactly 0.2in below it and is 0.4in high, and its bottom edge (at most
\* 7.1in) stays within the 7.5in slide height.
C10_Layout ==
    Built =>
        LET t == LastSlide.table
            f == LastSlide.footnote
        IN  /\ t.top = 1463040
            /\ t.top + t.height <= 5943600
            /\ f.top = t.top + t.height + 182880
            /\ f.height = 365760
            /\ f.top + f.height <= 6492240
            /\ f.top + f.height <= 6858000

C10_Witness ==
    /\ pc = "saved"
    /\ LastSlide.table.rows = 50
    /\ LastSlide.table.top + LastSlide.table.height = 5943600
    /\ LastSlide.footnote.top + LastSlide.footnote.height = 6492240

====
